---- MODULE Spec2Model ----
(***************************************************************************)
(* A model of app.py, the GHG lagoon mini-demo: the two engine functions   *)
(* predict_methane_ft3 and climate_scenarios, the inline conversion to     *)
(* kWh / CO2-eq / car-equivalents, and the Streamlit script that calls     *)
(* them.                                                                   *)
(*                                                                         *)
(* Numbers.  predict_methane_ft3 works on Python ints and is modelled on   *)
(* TLA+ integers.  Everything that touches a float literal (0.7, 1.0, 1.3, *)
(* 0.1, 0.52) is modelled as an exact fraction <<num, den>> in lowest      *)
(* terms, so a float result is compared by value and never by syntax       *)
(* (30000.0 == 30000).  Binary rounding of doubles is not modelled.        *)
(*                                                                         *)
(* Python dicts keep insertion order; a dict is modelled as a sequence of  *)
(* [key, value] items.  Python list positions are 0-based, sequence        *)
(* positions here are 1-based.                                             *)
(***************************************************************************)
EXTENDS Integers, Sequences, FiniteSets

VARIABLES
    LOCATION_FACTORS,    \* module-level dict, app.py:6
    CLIMATE_MULTIPLIER,  \* module-level dict, app.py:13
    \* ---- one Streamlit session running the script ----
    preset,              \* st.radio state
    cows,                \* st.slider state
    location,            \* st.selectbox state
    mode,                \* st.selectbox state
    run_button,          \* st.button: TRUE only in the run its click triggered
    methane_ft3,         \* locals of the run (None when the run did not set them)
    kwh,
    co2eq_kg,
    car_equiv,
    scenario_values,
    daily_demo,
    engine_calls,        \* the engine calls the run made, in order
    script_error,        \* the exception that ended the run, if any
    \* ---- callers that use the engine as a library ----
    call,                \* per caller: its latest invocation
    ret                  \* per caller: what that invocation produced

tables  == <<LOCATION_FACTORS, CLIMATE_MULTIPLIER>>
widgets == <<preset, cows, location, mode, run_button>>
locals  == <<methane_ft3, kwh, co2eq_kg, car_equiv, scenario_values, daily_demo,
             engine_calls, script_error>>
library == <<call, ret>>
vars    == <<tables, widgets, locals, library>>

None == <<>>

(***************************************************************************)
(* Exact fractions.                                                        *)
(***************************************************************************)
RECURSIVE GCD(_, _)
GCD(a, b) == IF b = 0 THEN a ELSE GCD(b, a % b)

\* n / d in lowest terms, for n >= 0 and d > 0.
Rat(n, d) == LET g == GCD(n, d) IN <<n \div g, d \div g>>

FromInt(n) == <<n, 1>>

\* The product of two fractions in lowest terms, reduced before multiplying.
RMul(a, b) ==
    LET g1 == GCD(a[1], b[2])
        g2 == GCD(b[1], a[2])
    IN  <<(a[1] \div g1) * (b[1] \div g2), (a[2] \div g2) * (b[2] \div g1)>>

\* a / b for b > 0.
RDiv(a, b) == RMul(a, <<b[2], b[1]>>)

(***************************************************************************)
(* Ordered dicts.                                                          *)
(***************************************************************************)
Item(k, v) == [key |-> k, value |-> v]

Keys(d) == [i \in DOMAIN d |-> d[i].key]

Values(d) == [i \in DOMAIN d |-> d[i].value]

HasKey(d, k) == \E i \in DOMAIN d : d[i].key = k

Get(d, k) == d[CHOOSE i \in DOMAIN d : d[i].key = k].value

(***************************************************************************)
(* Outcomes of a call: a returned value or a raised exception.             *)
(***************************************************************************)
NoException == "none"
KeyError    == "KeyError"
ValueError  == "ValueError"

Return(v) == [raised |-> NoException, value |-> <<v>>]

Raise(e) == [raised |-> e, value |-> None]

Returned(r) == r.raised = NoException

ValueOf(r) == r.value[1]

(***************************************************************************)
(* Module-level constants, app.py:6-22.                                    *)
(***************************************************************************)
InitLocationFactors ==
    << Item("Pullman",     [climate |-> "Cold", ft3_per_cow |-> 25]),
       Item("Lynden",      [climate |-> "Mild", ft3_per_cow |-> 30]),
       Item("Bakersfield", [climate |-> "Warm", ft3_per_cow |-> 37]) >>

InitClimateMultiplier ==
    << Item("Cold", Rat(7, 10)),
       Item("Mild", Rat(10, 10)),
       Item("Warm", Rat(13, 10)) >>

ELECTRICITY_PER_FT3 == Rat(1, 10)

CO2EQ_PER_FT3_KG == Rat(52, 100)

CAR_CO2_PER_YEAR_KG == 4600

(***************************************************************************)
(* The engine, app.py:25-56.                                               *)
(***************************************************************************)
\* A slip in the chain: the year counted as twelve 30-day months.
predict_factor_year360(m) ==
    IF m = "day" THEN 1
    ELSE IF m = "month" THEN 30
    ELSE 360

\* The if / elif / else chain both functions use: anything that is neither
\* "day" nor "month" takes the else branch.
predict_factor(m) ==
    IF m = "day" THEN 1
    ELSE IF m = "month" THEN 30
    ELSE 365

\* A slip in the lookup: dict.get with a default instead of indexing.
predict_methane_ft3_get_default(c, loc, m) ==
    LET base_ft3_per_cow_day ==
            IF HasKey(LOCATION_FACTORS, loc)
            THEN Get(LOCATION_FACTORS, loc).ft3_per_cow
            ELSE 0
    IN  Return(base_ft3_per_cow_day * c * predict_factor(m))

predict_methane_ft3(c, loc, m) ==
    IF ~HasKey(LOCATION_FACTORS, loc)
    THEN Raise(KeyError)
    ELSE LET base_ft3_per_cow_day == Get(LOCATION_FACTORS, loc).ft3_per_cow
             daily == base_ft3_per_cow_day * c
             factor == predict_factor(m)
         IN  Return(daily * factor)

scenario_factor(m) ==
    IF m = "day" THEN 1
    ELSE IF m = "month" THEN 30
    ELSE 365

\* A slip: the sweep rejects a mode the chain does not name.
climate_scenarios_strict_mode(c, base_location, m) ==
    IF ~HasKey(LOCATION_FACTORS, base_location)
    THEN Raise(KeyError)
    ELSE IF m \notin { "day", "month", "year" }
    THEN Raise(ValueError)
    ELSE LET base == Get(LOCATION_FACTORS, base_location).ft3_per_cow
         IN  Return([i \in DOMAIN CLIMATE_MULTIPLIER |->
                        Item(CLIMATE_MULTIPLIER[i].key,
                             RMul(RMul(RMul(FromInt(base), CLIMATE_MULTIPLIER[i].value),
                                       FromInt(c)), FromInt(scenario_factor(m))))])

\* A slip: the baseline is first scaled by the base location's own climate.
climate_scenarios_own_climate(c, base_location, m) ==
    IF ~HasKey(LOCATION_FACTORS, base_location)
    THEN Raise(KeyError)
    ELSE LET base == Get(LOCATION_FACTORS, base_location).ft3_per_cow
             own == Get(CLIMATE_MULTIPLIER, Get(LOCATION_FACTORS, base_location).climate)
         IN  Return([i \in DOMAIN CLIMATE_MULTIPLIER |->
                        Item(CLIMATE_MULTIPLIER[i].key,
                             RMul(RMul(RMul(RMul(FromInt(base), own),
                                            CLIMATE_MULTIPLIER[i].value),
                                       FromInt(c)), FromInt(scenario_factor(m))))])

\* A slip: the sweep runs over the multipliers from the warmest down.
climate_scenarios_reversed(c, base_location, m) ==
    IF ~HasKey(LOCATION_FACTORS, base_location)
    THEN Raise(KeyError)
    ELSE LET base == Get(LOCATION_FACTORS, base_location).ft3_per_cow
             n == Len(CLIMATE_MULTIPLIER)
         IN  Return([i \in DOMAIN CLIMATE_MULTIPLIER |->
                        Item(CLIMATE_MULTIPLIER[n + 1 - i].key,
                             RMul(RMul(RMul(FromInt(base), CLIMATE_MULTIPLIER[n + 1 - i].value),
                                       FromInt(c)), FromInt(scenario_factor(m))))])

climate_scenarios(c, base_location, m) ==
    IF ~HasKey(LOCATION_FACTORS, base_location)
    THEN Raise(KeyError)
    ELSE LET base_ft3_per_cow_day == Get(LOCATION_FACTORS, base_location).ft3_per_cow
             factor == scenario_factor(m)
             Daily(mult) == RMul(RMul(FromInt(base_ft3_per_cow_day), mult), FromInt(c))
         IN  Return([i \in DOMAIN CLIMATE_MULTIPLIER |->
                        Item(CLIMATE_MULTIPLIER[i].key,
                             RMul(Daily(CLIMATE_MULTIPLIER[i].value), FromInt(factor)))])

(***************************************************************************)
(* The conversions the script does inline, app.py:142-150.                 *)
(***************************************************************************)
kwh_of(methane) == RMul(FromInt(methane), ELECTRICITY_PER_FT3)

\* A slip: the CO2 line copied from the kWh line with its factor.
co2eq_kg_of_kwh_factor(methane) == RMul(FromInt(methane), ELECTRICITY_PER_FT3)

co2eq_kg_of(methane) == RMul(FromInt(methane), CO2EQ_PER_FT3_KG)

\* A slip: the day figure is not annualised.
car_equiv_of_day_as_is(co2, m) ==
    IF m = "year" THEN RDiv(co2, FromInt(CAR_CO2_PER_YEAR_KG))
    ELSE IF m = "month" THEN RDiv(RMul(co2, FromInt(12)), FromInt(CAR_CO2_PER_YEAR_KG))
    ELSE RDiv(co2, FromInt(CAR_CO2_PER_YEAR_KG))

car_equiv_of(co2, m) ==
    IF m = "year" THEN RDiv(co2, FromInt(CAR_CO2_PER_YEAR_KG))
    ELSE IF m = "month" THEN RDiv(RMul(co2, FromInt(12)), FromInt(CAR_CO2_PER_YEAR_KG))
    ELSE RDiv(RMul(co2, FromInt(365)), FromInt(CAR_CO2_PER_YEAR_KG))

derive(methane, m) ==
    LET co2 == co2eq_kg_of(methane)
    IN  Return([kwh |-> kwh_of(methane), co2eq_kg |-> co2, car_equiv |-> car_equiv_of(co2, m)])

(***************************************************************************)
(* The Streamlit script, app.py:89-216.  Streamlit runs the whole script   *)
(* again after every widget interaction; each action below is one such     *)
(* run.  A widget built with the same arguments as in the previous run     *)
(* keeps the value the session holds for it, and one whose arguments       *)
(* changed (a new default) starts again from its default.                  *)
(***************************************************************************)
PRESETS ==
    << "Custom", "Small WA Dairy (Pullman)", "Medium WA Dairy (Lynden)",
       "Large CA Dairy (Bakersfield)" >>

MODES == << "day", "month", "year" >>

SLIDER_MIN == 100

SLIDER_MAX == 20000

SLIDER_STEP == 100

SliderValues ==
    { SLIDER_MIN + SLIDER_STEP * k : k \in 0 .. ((SLIDER_MAX - SLIDER_MIN) \div SLIDER_STEP) }

Range(seq) == { seq[i] : i \in DOMAIN seq }

default_cows(p) ==
    IF p = "Small WA Dairy (Pullman)" THEN 500
    ELSE IF p = "Medium WA Dairy (Lynden)" THEN 2000
    ELSE IF p = "Large CA Dairy (Bakersfield)" THEN 15500
    ELSE 1000

\* A slip: a preset whose location is misspelt.
default_location_typo(p) ==
    IF p = "Small WA Dairy (Pullman)" THEN "Pullman"
    ELSE IF p = "Medium WA Dairy (Lynden)" THEN "Lynden"
    ELSE IF p = "Large CA Dairy (Bakersfield)" THEN "Bakersfeild"
    ELSE "Lynden"

default_location(p) ==
    IF p = "Small WA Dairy (Pullman)" THEN "Pullman"
    ELSE IF p = "Medium WA Dairy (Lynden)" THEN "Lynden"
    ELSE IF p = "Large CA Dairy (Bakersfield)" THEN "Bakersfield"
    ELSE "Lynden"

\* list.index: the position of x in list, 0 standing for "raises ValueError".
Index(list, x) ==
    IF x \in Range(list) THEN CHOOSE i \in DOMAIN list : list[i] = x ELSE 0

EngineCall(f, a) == [fn |-> f, args |-> a]

SetLocals(m, k, co, car, sv, dd, calls, err) ==
    /\ methane_ft3' = m
    /\ kwh' = k
    /\ co2eq_kg' = co
    /\ car_equiv' = car
    /\ scenario_values' = sv
    /\ daily_demo' = dd
    /\ engine_calls' = calls
    /\ script_error' = err

\* The right-hand column, app.py:123-216, for the widget values c, l, m.
RightColumn(c, l, m, clicked) ==
    IF ~clicked
    THEN SetLocals(None, None, None, None, None, None, <<>>, NoException)
    ELSE
      LET r1 == predict_methane_ft3(c, l, m)
          c1 == EngineCall("predict_methane_ft3", <<c, l, m>>)
          r2 == climate_scenarios(c, l, m)
          c2 == EngineCall("climate_scenarios", <<c, l, m>>)
          r3 == predict_methane_ft3(c, l, "day")
          c3 == EngineCall("predict_methane_ft3", <<c, l, "day">>)
      IN  IF ~Returned(r1)
          THEN SetLocals(None, None, None, None, None, None, <<c1>>, r1.raised)
          ELSE
            LET methane == ValueOf(r1)
                co2 == co2eq_kg_of(methane)
                car == car_equiv_of(co2, m)
            IN  IF ~Returned(r2)
                THEN SetLocals(methane, kwh_of(methane), co2, car, None, None,
                               <<c1, c2>>, r2.raised)
                ELSE IF l # "Bakersfield"
                THEN SetLocals(methane, kwh_of(methane), co2, car, ValueOf(r2), None,
                               <<c1, c2>>, NoException)
                ELSE IF ~Returned(r3)
                THEN SetLocals(methane, kwh_of(methane), co2, car, ValueOf(r2), None,
                               <<c1, c2, c3>>, r3.raised)
                ELSE SetLocals(methane, kwh_of(methane), co2, car, ValueOf(r2), ValueOf(r3),
                               <<c1, c2, c3>>, NoException)

\* One run of the script with the session holding preset p, slider value c,
\* location l and mode m, clicked telling whether the button triggered it.
Script(p, c, l, m, clicked) ==
    LET location_list == Keys(LOCATION_FACTORS)
        location_index == Index(location_list, default_location(p))
        previous_index == Index(location_list, default_location(preset))
        slider == IF default_cows(p) = default_cows(preset) THEN c ELSE default_cows(p)
        selected == IF location_index = previous_index THEN l
                    ELSE location_list[location_index]
    IN  /\ preset' = p
        /\ cows' = slider
        /\ IF location_index = 0
           THEN /\ location' = l
                /\ mode' = m
                /\ run_button' = FALSE
                /\ SetLocals(None, None, None, None, None, None, <<>>, ValueError)
           ELSE /\ location' = selected
                /\ mode' = m
                /\ run_button' = clicked
                /\ RightColumn(slider, selected, m, clicked)
        /\ UNCHANGED <<tables, library>>

SelectPreset(p) ==
    /\ p # preset
    /\ Script(p, cows, location, mode, FALSE)

MoveSlider(c) ==
    /\ c # cows
    /\ Script(preset, c, location, mode, FALSE)

SelectLocation(l) ==
    /\ l # location
    /\ Script(preset, cows, l, mode, FALSE)

SelectMode(m) ==
    /\ m # mode
    /\ Script(preset, cows, location, m, FALSE)

ClickPredict == Script(preset, cows, location, mode, TRUE)

(***************************************************************************)
(* Callers that use the engine as a library, with any arguments: each      *)
(* invocation leaves its arguments and its outcome with the caller.        *)
(***************************************************************************)
Callers == { "a", "b" }

MaxHerdBlocks == 2

MaxVolume == 2

Herds == { 1 } \cup { 500 * k : k \in 1 .. MaxHerdBlocks }

Volumes == 0 .. MaxVolume

LocationNames == Range(Keys(InitLocationFactors)) \cup { "Seattle" }

ModeTokens == Range(MODES) \cup { "week" }

NoCall == EngineCall("none", <<>>)

NoResult == [raised |-> NoException, value |-> None]

Predict(s, c, l, m) ==
    /\ call' = [call EXCEPT ![s] = EngineCall("predict_methane_ft3", <<c, l, m>>)]
    /\ ret' = [ret EXCEPT ![s] = predict_methane_ft3(c, l, m)]
    /\ UNCHANGED <<tables, widgets, locals>>

\* A slip: the sweep stores into the catalog entry it read.
ProjectWritingBack(s, c, l, m) ==
    /\ call' = [call EXCEPT ![s] = EngineCall("climate_scenarios", <<c, l, m>>)]
    /\ ret' = [ret EXCEPT ![s] = climate_scenarios(c, l, m)]
    /\ LOCATION_FACTORS' =
          [i \in DOMAIN LOCATION_FACTORS |->
              IF LOCATION_FACTORS[i].key = l
              THEN Item(l, [LOCATION_FACTORS[i].value EXCEPT !.ft3_per_cow = scenario_factor(m)])
              ELSE LOCATION_FACTORS[i]]
    /\ UNCHANGED <<CLIMATE_MULTIPLIER, widgets, locals>>

Project(s, c, l, m) ==
    /\ call' = [call EXCEPT ![s] = EngineCall("climate_scenarios", <<c, l, m>>)]
    /\ ret' = [ret EXCEPT ![s] = climate_scenarios(c, l, m)]
    /\ UNCHANGED <<tables, widgets, locals>>

Derive(s, v, m) ==
    /\ call' = [call EXCEPT ![s] = EngineCall("derive", <<v, m>>)]
    /\ ret' = [ret EXCEPT ![s] = derive(v, m)]
    /\ UNCHANGED <<tables, widgets, locals>>

(***************************************************************************)
(* Specifications.                                                         *)
(***************************************************************************)
Init ==
    /\ LOCATION_FACTORS = InitLocationFactors
    /\ CLIMATE_MULTIPLIER = InitClimateMultiplier
    /\ preset = PRESETS[1]
    /\ cows = default_cows(PRESETS[1])
    /\ location = default_location(PRESETS[1])
    /\ mode = MODES[1]
    /\ run_button = FALSE
    /\ methane_ft3 = None
    /\ kwh = None
    /\ co2eq_kg = None
    /\ car_equiv = None
    /\ scenario_values = None
    /\ daily_demo = None
    /\ engine_calls = <<>>
    /\ script_error = NoException
    /\ call = [s \in Callers |-> NoCall]
    /\ ret = [s \in Callers |-> NoResult]

\* One browser session using the page.
Next ==
    \/ \E p \in Range(PRESETS) : SelectPreset(p)
    \/ \E c \in SliderValues : MoveSlider(c)
    \/ \E l \in Range(Keys(LOCATION_FACTORS)) : SelectLocation(l)
    \/ \E m \in Range(MODES) : SelectMode(m)
    \/ ClickPredict

Spec == Init /\ [][Next]_vars

\* Callers invoking the engine directly, in any interleaving.
EngineNext ==
    \/ \E s \in Callers, c \in Herds, l \in LocationNames, m \in ModeTokens :
          Predict(s, c, l, m)
    \/ \E s \in Callers, c \in Herds, l \in LocationNames, m \in ModeTokens :
          Project(s, c, l, m)
    \/ \E s \in Callers, v \in Volumes, m \in ModeTokens : Derive(s, v, m)

EngineSpec == Init /\ [][EngineNext]_vars

(***************************************************************************)
(* What the specification says, stated independently of the code above.    *)
(***************************************************************************)
CatalogLocations == { "Pullman", "Lynden", "Bakersfield" }

RecognizedModes == { "day", "month", "year" }

ClimateClasses == << "Cold", "Mild", "Warm" >>

Intensity(l) ==
    CASE l = "Pullman" -> 25
      [] l = "Lynden" -> 30
      [] l = "Bakersfield" -> 37

DayCount(h) ==
    CASE h = "day" -> 1
      [] h = "month" -> 30
      [] h = "year" -> 365

Multiplier(c) ==
    CASE c = "Cold" -> Rat(7, 10)
      [] c = "Mild" -> Rat(1, 1)
      [] c = "Warm" -> Rat(13, 10)

Annualise(h) ==
    CASE h = "year" -> 1
      [] h = "month" -> 12
      [] h = "day" -> 365

IsCall(s, f) == call[s].fn = f

ValidArgs(a) == a[1] > 0 /\ a[2] \in CatalogLocations /\ a[3] \in RecognizedModes

NonNegative(q) == q[1] >= 0 /\ q[2] > 0

(***************************************************************************)
(* C1.  For every herd size > 0, catalog location and horizon in day,      *)
(* month, year, predict returns exactly intensity * herdSize * dayCount    *)
(* (25 / 30 / 37 per cow per day; 1 / 30 / 365 days), unrounded:           *)
(* predict(500, Pullman, year) = 4,562,500 and                             *)
(* predict(1000, Lynden, day) = 30,000.                                    *)
(***************************************************************************)
C1_PredictIsIntensityHerdDays ==
    \A s \in Callers :
        (IsCall(s, "predict_methane_ft3") /\ ValidArgs(call[s].args)) =>
            LET a == call[s].args
            IN  /\ Returned(ret[s])
                /\ ValueOf(ret[s]) = Intensity(a[2]) * a[1] * DayCount(a[3])
                /\ (a = <<500, "Pullman", "year">> => ValueOf(ret[s]) = 4562500)
                /\ (a = <<1000, "Lynden", "day">> => ValueOf(ret[s]) = 30000)

C1_Witness ==
    /\ call["a"] = EngineCall("predict_methane_ft3", <<500, "Pullman", "year">>)
    /\ ret["a"] = Return(4562500)
    /\ call["b"] = EngineCall("predict_methane_ft3", <<1000, "Lynden", "day">>)
    /\ ret["b"] = Return(30000)

(***************************************************************************)
(* C2.  predict called with a horizon token that is not day, month or      *)
(* year (herd size and location valid) fails with InvalidHorizonError and  *)
(* returns no methane value.                                               *)
(***************************************************************************)
C2_InvalidHorizonFails ==
    \A s \in Callers :
        ( /\ IsCall(s, "predict_methane_ft3")
          /\ call[s].args[2] \in CatalogLocations
          /\ call[s].args[3] \notin RecognizedModes ) =>
            /\ ret[s].raised = "InvalidHorizonError"
            /\ ret[s].value = None

(***************************************************************************)
(* C3.  predict called with a location that is not a key of the catalog    *)
(* fails at the lookup, before any arithmetic, and returns no methane      *)
(* value, whatever the herd size and the horizon.  The typed error is      *)
(* the KeyError of the dict lookup, which is what the specification calls  *)
(* UnknownLocationError.                                                   *)
(***************************************************************************)
C3_UnknownLocationFails ==
    \A s \in Callers :
        ( /\ IsCall(s, "predict_methane_ft3")
          /\ call[s].args[2] \notin CatalogLocations ) =>
            /\ ret[s].raised = KeyError
            /\ ret[s].value = None

C3_Witness ==
    /\ call["a"] = EngineCall("predict_methane_ft3", <<500, "Seattle", "year">>)
    /\ ~Returned(ret["a"])
    /\ call["b"] = EngineCall("predict_methane_ft3", <<1, "Seattle", "week">>)
    /\ ~Returned(ret["b"])

(***************************************************************************)
(* C4.  project mirrors predict's validation: on any arguments, unknown    *)
(* locations and unrecognized horizon tokens included, project fails       *)
(* exactly when predict fails on the same arguments, with the same kind    *)
(* of error; when both succeed project returns a full scenario mapping.    *)
(***************************************************************************)
C4_ProjectMirrorsPredict ==
    \A s \in Callers :
        IsCall(s, "climate_scenarios") =>
            LET a == call[s].args
                p == predict_methane_ft3(a[1], a[2], a[3])
            IN  /\ ret[s].raised = p.raised
                /\ Returned(ret[s]) =>
                      Range(Keys(ValueOf(ret[s]))) = Range(ClimateClasses)

C4_Witness ==
    /\ call["a"] = EngineCall("climate_scenarios", <<500, "Seattle", "day">>)
    /\ ret["a"].raised = KeyError
    /\ call["b"] = EngineCall("climate_scenarios", <<500, "Lynden", "week">>)
    /\ Returned(ret["b"])

(***************************************************************************)
(* C5.  For valid arguments project returns, for each climate class c,     *)
(* intensity(baseLocation) * multiplier(c) * herdSize * dayCount with      *)
(* multipliers Cold 0.7, Mild 1.0, Warm 1.3: a value fixed by the base     *)
(* location's intensity alone, in which the location's own climate class   *)
(* plays no part.  project(1000, Lynden, day) gives 21,000 / 30,000 /      *)
(* 39,000.                                                                 *)
(***************************************************************************)
C5_ProjectAppliesEveryMultiplier ==
    \A s \in Callers :
        (IsCall(s, "climate_scenarios") /\ ValidArgs(call[s].args)) =>
            LET a == call[s].args
                v == ValueOf(ret[s])
                Expected(c) ==
                    RMul(RMul(RMul(FromInt(Intensity(a[2])), Multiplier(c)),
                              FromInt(a[1])), FromInt(DayCount(a[3])))
            IN  /\ Returned(ret[s])
                /\ \A i \in DOMAIN ClimateClasses :
                      /\ HasKey(v, ClimateClasses[i])
                      /\ Get(v, ClimateClasses[i]) = Expected(ClimateClasses[i])
                /\ a = <<1000, "Lynden", "day">> =>
                      /\ Get(v, "Cold") = FromInt(21000)
                      /\ Get(v, "Mild") = FromInt(30000)
                      /\ Get(v, "Warm") = FromInt(39000)

C5_Witness ==
    /\ call["a"] = EngineCall("climate_scenarios", <<1000, "Lynden", "day">>)
    /\ Returned(ret["a"])
    /\ Get(ValueOf(ret["a"]), "Warm") = FromInt(39000)
    /\ call["b"] = EngineCall("climate_scenarios", <<1, "Pullman", "month">>)
    /\ Returned(ret["b"])
    /\ Get(ValueOf(ret["b"]), "Cold") = Rat(525, 1)

(***************************************************************************)
(* C6.  For valid arguments the mapping project returns has exactly the    *)
(* three climate classes as keys, in the order Cold, Mild, Warm, and its   *)
(* Mild entry equals predict on the same arguments.                        *)
(***************************************************************************)
C6_ScenarioOrderAndMild ==
    \A s \in Callers :
        (IsCall(s, "climate_scenarios") /\ ValidArgs(call[s].args)) =>
            LET a == call[s].args
                v == ValueOf(ret[s])
            IN  /\ Returned(ret[s])
                /\ Keys(v) = ClimateClasses
                /\ v[2].value = FromInt(ValueOf(predict_methane_ft3(a[1], a[2], a[3])))

C6_Witness ==
    /\ call["a"] = EngineCall("climate_scenarios", <<500, "Bakersfield", "year">>)
    /\ Returned(ret["a"])
    /\ Keys(ValueOf(ret["a"])) = ClimateClasses
    /\ call["b"] = EngineCall("predict_methane_ft3", <<500, "Bakersfield", "year">>)
    /\ FromInt(ValueOf(ret["b"])) = Get(ValueOf(ret["a"]), "Mild")

(***************************************************************************)
(* C7.  Annualized car-equivalents are horizon-invariant: for every valid  *)
(* herd size and location the car-year equivalent the script derives from  *)
(* predict(h, loc, H) is the same number for H = day, month and year.      *)
(***************************************************************************)
\* The car-year equivalent the specification derives for horizon h.
CarYears(c, l, h) ==
    RDiv(RMul(RMul(FromInt(Intensity(l) * c * DayCount(h)), Rat(52, 100)),
              FromInt(Annualise(h))),
         FromInt(4600))

Shown == run_button /\ script_error = NoException

\* The claim as stated: violated by the month horizon.
C7_CarYearsHorizonInvariant ==
    Shown => \A h \in RecognizedModes : car_equiv = CarYears(cows, location, h)

\* As amended: over the slider's herd sizes the day and year horizons give
\* the same number, and the month horizon gives 360/365 of it (30 days a
\* month, annualised by 12).
C7_CarYearsDayYearOnly ==
    Shown =>
        /\ mode \in { "day", "year" } =>
              /\ car_equiv = CarYears(cows, location, "day")
              /\ car_equiv = CarYears(cows, location, "year")
        /\ mode = "month" =>
              /\ car_equiv = RMul(CarYears(cows, location, "year"), Rat(360, 365))
              /\ car_equiv # CarYears(cows, location, "year")

C7_Witness ==
    /\ Shown
    /\ mode = "month"
    /\ cows = 500
    /\ location = "Pullman"
    /\ car_equiv = RMul(CarYears(500, "Pullman", "day"), Rat(360, 365))

(***************************************************************************)
(* C8.  For every non-negative methane volume v and horizon H, derive      *)
(* yields energyEquivalentKwh = v * 0.1, co2EquivalentKg = v * 0.52 and    *)
(* carYearEquivalent = co2EquivalentKg * k(H) / 4600 with k(year) = 1,     *)
(* k(month) = 12, k(day) = 365, all three non-negative.                    *)
(***************************************************************************)
C8_DeriveFormulas ==
    \A s \in Callers :
        (IsCall(s, "derive") /\ call[s].args[1] >= 0
                             /\ call[s].args[2] \in RecognizedModes) =>
            LET v == call[s].args[1]
                h == call[s].args[2]
                d == ValueOf(ret[s])
            IN  /\ Returned(ret[s])
                /\ d.kwh = Rat(v, 10)
                /\ d.co2eq_kg = Rat(v * 52, 100)
                /\ d.car_equiv = Rat(v * 52 * Annualise(h), 100 * 4600)
                /\ NonNegative(d.kwh)
                /\ NonNegative(d.co2eq_kg)
                /\ NonNegative(d.car_equiv)

C8_Witness ==
    /\ call["a"] = EngineCall("derive", <<2, "month">>)
    /\ Returned(ret["a"])
    /\ ValueOf(ret["a"]).car_equiv = Rat(1248, 460000)
    /\ call["b"] = EngineCall("derive", <<1, "day">>)
    /\ ValueOf(ret["b"]).car_equiv = Rat(18980, 460000)

(***************************************************************************)
(* C9.  Across any interleaving of predict, project and derive             *)
(* invocations by several callers, the static tables are never modified,   *)
(* and so every result depends on its own arguments only: the same call    *)
(* made again at any later point, by the same or another caller, returns   *)
(* the identical result.                                                   *)
(***************************************************************************)
\* The call a caller made, made once more in the current state.
Again(k) ==
    IF k.fn = "predict_methane_ft3"
    THEN predict_methane_ft3(k.args[1], k.args[2], k.args[3])
    ELSE IF k.fn = "climate_scenarios"
    THEN climate_scenarios(k.args[1], k.args[2], k.args[3])
    ELSE derive(k.args[1], k.args[2])

C9_TablesFixedResultsRepeat ==
    /\ LOCATION_FACTORS = InitLocationFactors
    /\ CLIMATE_MULTIPLIER = InitClimateMultiplier
    /\ \A s \in Callers : call[s] # NoCall => ret[s] = Again(call[s])
    /\ \A s, t \in Callers :
          (call[s].fn = call[t].fn /\ call[s].args = call[t].args) => ret[s] = ret[t]

C9_Witness ==
    /\ call["a"] = EngineCall("climate_scenarios", <<500, "Pullman", "year">>)
    /\ call["b"] = call["a"]
    /\ Returned(ret["b"])
    /\ ret["a"] = ret["b"]

(***************************************************************************)
(* C10.  The page never builds an invalid request: every preset's default  *)
(* location is a catalog key and its default herd size is on the slider    *)
(* (100..20000 in steps of 100); the script calls the engine only in the   *)
(* run the Predict button triggered, each call with a herd size on the     *)
(* slider, a catalog location and a mode among day, month, year; and the   *)
(* headline value is strictly positive.                                    *)
(***************************************************************************)
C10_PageBuildsValidRequests ==
    /\ default_location(preset) \in CatalogLocations
    /\ HasKey(LOCATION_FACTORS, default_location(preset))
    /\ default_cows(preset) \in { 100 * k : k \in 1 .. 200 }
    /\ script_error = NoException
    /\ engine_calls # <<>> <=> run_button
    /\ \A i \in DOMAIN engine_calls :
          /\ engine_calls[i].args[1] \in { 100 * k : k \in 1 .. 200 }
          /\ engine_calls[i].args[2] \in CatalogLocations
          /\ engine_calls[i].args[3] \in RecognizedModes
    /\ run_button => methane_ft3 > 0

C10_Witness ==
    /\ preset = "Large CA Dairy (Bakersfield)"
    /\ cows = 100
    /\ location = "Bakersfield"
    /\ mode = "year"
    /\ run_button
    /\ Len(engine_calls) = 3
    /\ methane_ft3 = 1350500
    /\ daily_demo = 3700

====
